---------------------------- MODULE Spec2Model ----------------------------
(***************************************************************************)
(* Request-dispatch pipeline of mcp_server.py: classification with a      *)
(* process-lifetime cache, confidence gating, model-chain fallback,       *)
(* REPORT / NO_EXEC / EXECUTE routing, sequential command execution and   *)
(* the two front ends of main() (interactive --cli loop, one-shot --text).*)
(* The third mode of main(), run_as_service, is modelled together with the *)
(* processes that supervise it: idle_watcher.py and healthcheck.py, which  *)
(* read the heartbeat file state.json through utils.safe_read.             *)
(*                                                                         *)
(* Conventions                                                             *)
(*  - A Python str that the code inspects (user input, keywords) is a     *)
(*    sequence of one-character strings, so lower(), strip() and the      *)
(*    substring test `k in t` are computed.  Hangul syllables of          *)
(*    CONTEXT_TRIGGERS are written as their code points ("U+C774").       *)
(*  - A JSON value is a record with a field json ("dict" | "list"); the   *)
(*    keys of a dict are the other fields of the record, so a missing key *)
(*    is a field that is absent from DOMAIN.                               *)
(*  - A model response text is a sequence of tokens: markdown fences,     *)
(*    one JSON document, or junk.                                          *)
(*  - confidence is in hundredths (0.6 is 60).                             *)
(***************************************************************************)
EXTENDS Integers, Sequences, FiniteSets, TLC

---------------------------------------------------------------------------
(* Bounds *)

\* number of requests typed into the --cli loop before the user only quits
MaxRequests == 2
\* length of the longest command list a planner reply carries
MaxCommands == 2

---------------------------------------------------------------------------
(* Python str helpers *)

UpperChars == <<"A","B","C","D","E","F","G","H","I","J","K","L","M",
                "N","O","P","Q","R","S","T","U","V","W","X","Y","Z">>
LowerChars == <<"a","b","c","d","e","f","g","h","i","j","k","l","m",
                "n","o","p","q","r","s","t","u","v","w","x","y","z">>

LowerChar(c) ==
    IF \E i \in DOMAIN UpperChars : UpperChars[i] = c
    THEN LowerChars[CHOOSE i \in DOMAIN UpperChars : UpperChars[i] = c]
    ELSE c

\* str.lower()
Lower(s) == [i \in 1..Len(s) |-> LowerChar(s[i])]

\* str.strip()
Strip(s) ==
    LET keep == {i \in 1..Len(s) : s[i] \notin {" ", "\n"}}
        lo   == CHOOSE i \in keep : \A j \in keep : i <= j
        hi   == CHOOSE i \in keep : \A j \in keep : i >= j
    IN IF keep = {} THEN <<>> ELSE SubSeq(s, lo, hi)

\* the substring test `k in t`
Contains(t, k) ==
    \E i \in 0..(Len(t) - Len(k)) : SubSeq(t, i + 1, i + Len(k)) = k

\* dict.get(key, default)
Get(d, key, default) == IF key \in DOMAIN d THEN d[key] ELSE default

\* hasattr(v, "get"): only a JSON object has .get
IsDict(v) == v.json = "dict"

---------------------------------------------------------------------------
(* Configuration tables of mcp_server.py *)

MODEL_CHAINS ==
    [server_operation |-> <<"gpt-oss:120b", "qwen3-next:80b">>,
     code_generation  |-> <<"devstral-2:123b-cloud", "qwen3-coder:480b-cloud">>,
     explanatory      |-> <<"gemini-3-flash-preview:cloud", "mistral-large-3">>,
     unknown          |-> <<"ministral-3:14b", "glm-4.6">>]

CONFIDENCE_THRESHOLD == 60

REPORT_KEYWORDS ==
    << <<"r","e","p","o","r","t"," ","m","o","d","e">>,
       <<"r","e","p","o","r","t","_","o","n","l","y">>,
       <<"-","-","r","e","p","o","r","t">>,
       <<"[","r","e","p","o","r","t","]">> >>

CONTEXT_TRIGGERS ==
    << <<"U+C774", " ", "U+D3F4", "U+B354">>,
       <<"U+D604", "U+C7AC", " ", "U+D3F4", "U+B354">>,
       <<"U+D30C", "U+C77C", " ", "U+CC38", "U+ACE0">>,
       <<"U+CF54", "U+B4DC", " ", "U+CC38", "U+ACE0">>,
       <<"U+C2A4", "U+D06C", "U+B9BD", "U+D2B8", " ", "U+CC38", "U+ACE0">>,
       <<"p","r","o","j","e","c","t">>,
       <<"c","o","n","t","e","x","t">> >>

QUIT_WORDS == { <<"q","u","i","t">>, <<"e","x","i","t">> }

should_attach_context(user_input) ==
    LET t == Lower(user_input)
    IN \E i \in DOMAIN CONTEXT_TRIGGERS : Contains(t, Lower(CONTEXT_TRIGGERS[i]))

is_report_mode(user_input) ==
    LET t == Lower(user_input)
    IN \E i \in DOMAIN REPORT_KEYWORDS : Contains(t, REPORT_KEYWORDS[i])

---------------------------------------------------------------------------
(* safe_load_json *)

\* FENCE_JSON is the opening fence with its json tag, FENCE a bare triple backquote
FENCE_JSON == [tok |-> "fence_json"]
FENCE      == [tok |-> "fence"]
JUNK       == [tok |-> "junk"]
Doc(v)     == [tok |-> "json", v |-> v]

\* the re.sub of safe_load_json: every fence, with the whitespace next to it, is removed
StripFences(content) ==
    SelectSeq(content, LAMBDA t : t.tok \notin {"fence_json", "fence"})

\* json.loads succeeds exactly on one JSON document
Parsable(content) ==
    LET clean == StripFences(content)
    IN Len(clean) = 1 /\ clean[1].tok = "json"

safe_load_json(content, default) ==
    IF Parsable(content) THEN StripFences(content)[1].v ELSE default

---------------------------------------------------------------------------
(* What the outside world can hand to the program *)

TXT_df     == <<"d","f">>
TXT_report == <<"P","r","o","j","e","c","t"," ","-","-","R","e","p","o","r","t">>
TXT_quit   == <<"q","u","i","t">>
TXT_EXIT   == <<" ","E","x","i","t"," ">>

\* lines typed at the MCP> prompt, and values of --text
InputLines == {TXT_df, TXT_report, TXT_quit, TXT_EXIT}

RW == <<"r","w">>

\* JSON documents the classifier model may answer with
ClassifierDocs ==
    { [json |-> "dict", nature |-> "server_operation", confidence |-> 60, rewritten_request |-> RW],
      [json |-> "dict", nature |-> "server_operation", confidence |-> 59, rewritten_request |-> RW],
      [json |-> "dict", nature |-> "explanatory",      confidence |-> 90],
      [json |-> "dict", nature |-> "explanatory",      confidence |-> 59, rewritten_request |-> RW],
      [json |-> "dict", nature |-> "code_generation",  confidence |-> 90, rewritten_request |-> RW],
      [json |-> "dict", nature |-> "sever_operation",  confidence |-> 90, rewritten_request |-> RW],
      [json |-> "dict", confidence |-> 60, rewritten_request |-> RW],
      [json |-> "list"] }

FencedClassifierDoc ==
    [json |-> "dict", nature |-> "server_operation", confidence |-> 60, rewritten_request |-> RW]

\* outcome of client.chat for the classifier: an exception, or a response text
ClassifierOutcomes ==
    { [kind |-> "raise"] }
    \cup { [kind |-> "content", content |-> <<Doc(d)>>] : d \in ClassifierDocs }
    \cup { [kind |-> "content", content |-> <<FENCE_JSON, Doc(FencedClassifierDoc), FENCE>>],
           [kind |-> "content", content |-> <<JUNK>>] }

\* the n commands of a planner reply; ids descend so list order is not sorted order
CommandList(n) == [i \in 1..n |-> n + 1 - i]

\* a planner reply with n commands; the one-command plan names an output_file
PlanDoc(n) ==
    IF n = 1
    THEN [json |-> "dict", description |-> "plan", output_file |-> "out.txt",
          commands |-> [isList |-> TRUE, items |-> CommandList(n)]]
    ELSE [json |-> "dict", description |-> "plan",
          commands |-> [isList |-> TRUE, items |-> CommandList(n)]]

\* "commands": "systemctl restart nginx": a string where a list is expected
PLAN_NOT_LIST ==
    [json |-> "dict", description |-> "plan",
     commands |-> [isList |-> FALSE, items |-> CommandList(1)]]

REPORT_DOC == [json |-> "dict", summary |-> "s", risk |-> "low"]

NON_DICT == [json |-> "list"]

\* JSON documents a chain model may answer with
ModelDocs ==
    { PlanDoc(n) : n \in 0..MaxCommands }
    \cup { PLAN_NOT_LIST, REPORT_DOC, NON_DICT }

\* a response text: the one-command plan comes wrapped in markdown fences
ModelContent(d) ==
    IF d = PlanDoc(1) THEN <<FENCE_JSON, Doc(d), FENCE>> ELSE <<Doc(d)>>

\* str(e) of a failed client.chat: the error names the model that was asked
ModelError(m) == m

\* outcome of client.chat for chain model m
ModelOutcomes(m) ==
    { [kind |-> "raise", err |-> ModelError(m)] }
    \cup { [kind |-> "content", content |-> ModelContent(d)] : d \in ModelDocs }
    \cup { [kind |-> "content", content |-> <<JUNK>>] }

\* outcome of subprocess.run(cmd, shell=True, capture_output=True, text=True, timeout=90)
RunOutcomes ==
    { [kind |-> "exit", returncode |-> 0, stdout |-> <<"o","k","\n">>, stderr |-> <<>>],
      [kind |-> "exit", returncode |-> 1, stdout |-> <<>>, stderr |-> <<"e","r","r","\n">>],
      [kind |-> "timeout"] }

---------------------------------------------------------------------------
(* utils.py, healthcheck.py, idle_watcher.py: the heartbeat file and its readers *)

\* what can be found at the path state.json
MISSING == [file |-> "missing"]
GARBLED == [file |-> "garbled"]
Json(v) == [file |-> "json", value |-> v]

Heartbeat(t) == [json |-> "dict", last_heartbeat |-> t, status |-> "running"]
STATUS_ONLY  == [json |-> "dict", status |-> "running"]

\* heartbeat files a reader may meet: absent, not JSON, {}, without the key,
\* a list, timestamp 0, a real timestamp
HeartbeatFiles ==
    { MISSING, GARBLED, Json([json |-> "dict"]), Json(STATUS_ONLY), Json(NON_DICT),
      Json(Heartbeat(0)), Json(Heartbeat(1000)) }

\* readings of time.time(): ages 5, 30, 31, 45, 1800 and 1801 of Heartbeat(1000)
Clock == {1005, 1030, 1031, 1045, 2800, 2801}

\* results of safe_shell: the CompletedProcess, or None after a timeout or error
ShellResults == {"proc", "None"}

\* utils.safe_read: default when the file is absent or json.loads raises
safe_read(path, default) ==
    IF path.file = "json" THEN path.value ELSE default

\* Python truth value of a parsed document: {} is false
Falsy(data) == data.json = "dict" /\ DOMAIN data = {"json"}

MAX_AGE == 30

\* healthcheck.py read everything but the age limit
healthcheck_NoAgeLimit(file, t) ==
    LET data == safe_read(file, [json |-> "dict"])
    IN IF Falsy(data) \/ "last_heartbeat" \notin DOMAIN data THEN 1 ELSE 0

\* healthcheck.py: the exit code, reading the file and the clock once
healthcheck(file, t) ==
    LET data == safe_read(file, [json |-> "dict"])
    IN IF Falsy(data) \/ "last_heartbeat" \notin DOMAIN data
       THEN 1
       ELSE IF t - data.last_heartbeat > MAX_AGE THEN 1 ELSE 0

IDLE_LIMIT == 1800

\* the age test without `last and`: the default 0 counts as a heartbeat
idle_check_NoTruthTest(file, t) ==
    LET data == safe_read(file, [json |-> "dict"])
    IN IF ~IsDict(data)
       THEN "except"
       ELSE LET last == Get(data, "last_heartbeat", 0)
            IN IF (t - last) > IDLE_LIMIT THEN "stop" ELSE "sleep"

\* the comparison with the limit made inclusive
idle_check_AtLimit(file, t) ==
    LET data == safe_read(file, [json |-> "dict"])
    IN IF ~IsDict(data)
       THEN "except"
       ELSE LET last == Get(data, "last_heartbeat", 0)
            IN IF last # 0 /\ (t - last) >= IDLE_LIMIT THEN "stop" ELSE "sleep"

\* one pass through the body of idle_watcher.py's loop: stop, sleep or except
idle_check(file, t) ==
    LET data == safe_read(file, [json |-> "dict"])
    IN IF ~IsDict(data)
       THEN "except"
       ELSE LET last == Get(data, "last_heartbeat", 0)
            IN IF last # 0 /\ (t - last) > IDLE_LIMIT THEN "stop" ELSE "sleep"

---------------------------------------------------------------------------
(* State *)

VARIABLES
    frontend,        \* "cli" (args.cli), "text" (args.text) or "service" (neither)
    pc,              \* position of main(): main, handle_input, route,
                     \*   call_with_fallback, execute_plan, run, finish, exit
    nreq,            \* requests handed to handle_input so far
    text,            \* main's text / handle_input's user_input
    file_ctx,        \* bool(file_ctx) of the request
    CLASSIFY_CACHE,  \* the module-level cache, keyed by <<user_input, bool(file_ctx)>>
    seen,            \* history: per key, how the latest remote classification ended
    cls_call,        \* history: what classify_request did for this request
    cls,             \* handle_input's cls
    nature,          \* handle_input's nature after the confidence gate
    models,          \* handle_input's models
    rewritten,       \* handle_input's rewritten
    purpose,         \* which caller entered call_with_fallback: report or plan
    attempts,        \* history: the client.chat calls of call_with_fallback, in call order
    last,            \* call_with_fallback's last
    plan,            \* handle_input's plan
    commands,        \* execute_plan's commands
    results,         \* execute_plan's results
    shell,           \* history: commands handed to subprocess.run for this request
    outcome,         \* how handle_input ended: return value or exception
    printed,         \* what main printed for the request
    error_log,       \* entries log_error appended during the request
    out_file,        \* content of the file named by the plan's output_file
    state_json,      \* content of /home/ubuntu/mcp/state.json, the heartbeat file
    now,             \* time.time()
    stop_signal,     \* run_as_service's stop_signal
    svc_pc,          \* position of run_as_service: off, test, sleep, done
    svc_polled,      \* history: run_as_service has slept through one poll interval
    watcher_pc,      \* position of idle_watcher.py: off, check, sleep, done
    stops,           \* history: systemctl stop commands the watcher has issued
    w_last,          \* history: how the watcher's latest check ended
    probe            \* history: exit code of the latest healthcheck.py run

\* what the dispatcher never touches: the files and the supervision processes
sup_vars == <<out_file, state_json, now, stop_signal, svc_pc, svc_polled, watcher_pc,
              stops, w_last, probe>>

vars == <<frontend, pc, nreq, text, file_ctx, CLASSIFY_CACHE, seen, cls_call, cls,
          nature, models, rewritten, purpose, attempts, last, plan, commands,
          results, shell, outcome, printed, error_log, sup_vars>>

NONE == [json |-> "none"]

EmptyMap == [k \in {} |-> NONE]

Put(m, key, v) == [k \in DOMAIN m \cup {key} |-> IF k = key THEN v ELSE m[k]]

Init ==
    /\ frontend \in {"cli", "text", "service"}
    /\ pc = "main"
    /\ nreq = 0
    /\ text = <<>>
    /\ file_ctx = FALSE
    /\ CLASSIFY_CACHE = EmptyMap
    /\ seen = EmptyMap
    /\ cls_call = [remote |-> FALSE, prior |-> [how |-> "never"]]
    /\ cls = NONE
    /\ nature = "None"
    /\ models = <<>>
    /\ rewritten = <<>>
    /\ purpose = "None"
    /\ attempts = <<>>
    /\ last = "None"
    /\ plan = NONE
    /\ commands = <<>>
    /\ results = <<>>
    /\ shell = <<>>
    /\ outcome = [kind |-> "none"]
    /\ printed = [kind |-> "none"]
    /\ error_log = <<>>
    /\ out_file = <<>>
    /\ now \in {t \in Clock : \A u \in Clock : t <= u}
    /\ stop_signal = FALSE
    /\ svc_polled = FALSE
    /\ stops = <<>>
    /\ w_last = [how |-> "none"]
    /\ probe = [ran |-> FALSE]
    /\ IF frontend = "service"
       THEN /\ state_json \in HeartbeatFiles
            /\ svc_pc = "test"
            /\ watcher_pc = "check"
       ELSE /\ state_json = Json(Heartbeat(1000))
            /\ svc_pc = "off"
            /\ watcher_pc = "off"

---------------------------------------------------------------------------
(* classify_request *)

\* the default built with an empty rewritten_request
ClassifyDefault_EmptyRewrite(user_input) ==
    [json |-> "dict", nature |-> "unknown", rewritten_request |-> <<>>,
     confidence |-> 0]

\* the value of both `default` and the except branch's return

ClassifyDefault(user_input) ==
    [json |-> "dict", nature |-> "unknown", rewritten_request |-> user_input,
     confidence |-> 0]

\* the except branch stores the default it returns
classify_request_StoresFailure(user_input, ctx, cache, net) ==
    LET key == <<user_input, ctx>>
    IN IF key \in DOMAIN cache
       THEN [result |-> cache[key], cache |-> cache, remote |-> FALSE, logged |-> FALSE]
       ELSE IF net.kind = "raise"
            THEN [result |-> ClassifyDefault(user_input),
                  cache |-> Put(cache, key, ClassifyDefault(user_input)),
                  remote |-> TRUE, logged |-> TRUE]
            ELSE LET result == safe_load_json(net.content, ClassifyDefault(user_input))
                 IN [result |-> result, cache |-> Put(cache, key, result),
                     remote |-> TRUE, logged |-> FALSE]

\* classify_request without the store CLASSIFY_CACHE[key] = result
classify_request_NoStore(user_input, ctx, cache, net) ==
    LET key == <<user_input, ctx>>
    IN IF key \in DOMAIN cache
       THEN [result |-> cache[key], cache |-> cache, remote |-> FALSE, logged |-> FALSE]
       ELSE IF net.kind = "raise"
            THEN [result |-> ClassifyDefault(user_input), cache |-> cache,
                  remote |-> TRUE, logged |-> TRUE]
            ELSE [result |-> safe_load_json(net.content, ClassifyDefault(user_input)),
                  cache |-> cache, remote |-> TRUE, logged |-> FALSE]

\* the whole function: cache lookup, one remote call, parse, store, except
\* net is what client.chat does if it is called
classify_request(user_input, ctx, cache, net) ==
    LET key == <<user_input, ctx>>
    IN IF key \in DOMAIN cache
       THEN [result |-> cache[key], cache |-> cache, remote |-> FALSE, logged |-> FALSE]
       ELSE IF net.kind = "raise"
            THEN [result |-> ClassifyDefault(user_input), cache |-> cache,
                  remote |-> TRUE, logged |-> TRUE]
            ELSE LET result == safe_load_json(net.content, ClassifyDefault(user_input))
                 IN [result |-> result, cache |-> Put(cache, key, result),
                     remote |-> TRUE, logged |-> FALSE]

---------------------------------------------------------------------------
(* handle_input: gate, chain resolution, routing *)

\* the gate left out: the classifier's category is used whatever the confidence
GatedNature_NoGate(c) == Get(c, "nature", "unknown")

\* nature = cls.get("nature", "unknown"), overridden below the threshold
GatedNature(c) ==
    IF Get(c, "confidence", 0) < CONFIDENCE_THRESHOLD
    THEN "unknown"
    ELSE Get(c, "nature", "unknown")

\* the lookup without its default: an unmapped category finds no chain
ResolveChain_NoDefault(n) ==
    IF n \in DOMAIN MODEL_CHAINS THEN MODEL_CHAINS[n] ELSE <<>>

\* MODEL_CHAINS.get(nature, MODEL_CHAINS["unknown"])
ResolveChain(n) ==
    IF n \in DOMAIN MODEL_CHAINS THEN MODEL_CHAINS[n] ELSE MODEL_CHAINS["unknown"]

\* routing on the category alone
IsReportRoute_CategoryOnly(n, user_input) == n = "explanatory"

\* nature == "explanatory" or is_report_mode(user_input)
IsReportRoute(n, user_input) == n = "explanatory" \/ is_report_mode(user_input)

---------------------------------------------------------------------------
(* call_with_fallback *)

EMPTY_DICT == [json |-> "dict"]

\* the chain walked from its end
NextModel_Reversed(chain, made) == chain[Len(chain) - Len(made)]

\* the model the for loop is at after the calls made so far
NextModel(chain, made) == chain[Len(made) + 1]

\* json.loads in place of safe_load_json: a parse error is one more failed attempt
ChatAttempt_ParseErrorFails(net, last0) ==
    IF net.kind = "raise"
    THEN [returned |-> FALSE, value |-> NONE, last |-> net.err]
    ELSE IF Parsable(net.content)
         THEN [returned |-> TRUE, value |-> StripFences(net.content)[1].v, last |-> last0]
         ELSE [returned |-> FALSE, value |-> NONE, last |-> "JSONDecodeError"]

\* one iteration of the for loop: return the parsed response, or keep str(e)
ChatAttempt(net, last0) ==
    IF net.kind = "raise"
    THEN [returned |-> FALSE, value |-> NONE, last |-> net.err]
    ELSE [returned |-> TRUE, value |-> safe_load_json(net.content, EMPTY_DICT),
          last |-> last0]

Raise(exc, detail) == [kind |-> "raise", exc |-> exc, detail |-> detail]

\* a default result in place of the raise
Exhausted_ReturnsDefault(last0) == [kind |-> "return", mode |-> "REPORT", report |-> EMPTY_DICT]

\* the statement after the loop: raise RuntimeError(last)
Exhausted(last0) == Raise("RuntimeError", last0)

---------------------------------------------------------------------------
(* execute_plan *)

NO_COMMANDS == [isList |-> TRUE, items |-> <<>>]

\* commands = plan.get("commands", []); not a list -> []
PlanCommands(p) ==
    LET c == Get(p, "commands", NO_COMMANDS)
    IN IF c.isList THEN c.items ELSE <<>>

\* the empty-list test left out
IsNoExec_Never(cmds) == FALSE

\* if len(commands) == 0: return NO_EXEC
IsNoExec(cmds) == Len(cmds) = 0

\* only commands that exit 0 are recorded
RecordResult_SkipFailed(res, cmd, proc) ==
    IF proc.returncode # 0
    THEN res
    ELSE Append(res, [command |-> cmd, returncode |-> proc.returncode,
                      stdout |-> Strip(proc.stdout), stderr |-> Strip(proc.stderr)])

\* results.append({...}) for a command that ran to its exit
RecordResult(res, cmd, proc) ==
    Append(res, [command |-> cmd, returncode |-> proc.returncode,
                 stdout |-> Strip(proc.stdout), stderr |-> Strip(proc.stderr)])

ExecuteOutcome(p, res) ==
    [kind |-> "return", mode |-> "EXECUTE", description |-> Get(p, "description", "None"),
     results |-> res, saved_to |-> Get(p, "output_file", "None")]

\* an empty plan answered as a report
NoExecOutcome_AsReport(p) ==
    [kind |-> "return", mode |-> "REPORT",
     report |-> Get(p, "description", "No commands to execute")]

NoExecOutcome(p) ==
    [kind |-> "return", mode |-> "NO_EXEC",
     description |-> Get(p, "description", "No commands to execute")]

ReportOutcome(res) == [kind |-> "return", mode |-> "REPORT", report |-> res]

---------------------------------------------------------------------------
(* main: the two front ends *)

GENERIC_CLI  == "error occurred"
GENERIC_TEXT == "AI processing failed"

\* no try/except in the loop: the exception ends main
TopLevel_Uncaught(fe, out) ==
    IF out.kind = "return"
    THEN [printed |-> [kind |-> "result", value |-> out], logged |-> FALSE,
          pc |-> IF fe = "cli" THEN "main" ELSE "exit"]
    ELSE [printed |-> [kind |-> "traceback", msg |-> out.exc], logged |-> FALSE,
          pc |-> "exit"]

\* the try/except around handle_input: what is printed, what is logged, where main goes
TopLevel(fe, out) ==
    IF out.kind = "return"
    THEN [printed |-> [kind |-> "result", value |-> out], logged |-> FALSE,
          pc |-> IF fe = "cli" THEN "main" ELSE "exit"]
    ELSE [printed |-> [kind |-> "error",
                       msg |-> IF fe = "cli" THEN GENERIC_CLI ELSE GENERIC_TEXT],
          logged |-> TRUE,
          pc |-> IF fe = "cli" THEN "main" ELSE "exit"]

\* the loop's exit test: text.lower() in ("quit", "exit")
IsQuit(t) == Lower(t) \in QUIT_WORDS

\* every request stamps the heartbeat file as a sign of activity
BeginRequest_StampsHeartbeat(t) ==
    /\ text' = t
    /\ pc' = "handle_input"
    /\ nreq' = nreq + 1
    /\ file_ctx' = FALSE
    /\ cls_call' = [remote |-> FALSE, prior |-> [how |-> "never"]]
    /\ cls' = NONE
    /\ nature' = "None"
    /\ models' = <<>>
    /\ rewritten' = <<>>
    /\ purpose' = "None"
    /\ attempts' = <<>>
    /\ last' = "None"
    /\ plan' = NONE
    /\ commands' = <<>>
    /\ results' = <<>>
    /\ shell' = <<>>
    /\ outcome' = [kind |-> "none"]
    /\ printed' = [kind |-> "none"]
    /\ error_log' = <<>>
    /\ state_json' = Json(Heartbeat(now))
    /\ UNCHANGED <<out_file, now, stop_signal, svc_pc, svc_polled, watcher_pc, stops,
                   w_last, probe, frontend, CLASSIFY_CACHE, seen>>

\* a call of handle_input starts with fresh locals
BeginRequest(t) ==
    /\ text' = t
    /\ pc' = "handle_input"
    /\ nreq' = nreq + 1
    /\ file_ctx' = FALSE
    /\ cls_call' = [remote |-> FALSE, prior |-> [how |-> "never"]]
    /\ cls' = NONE
    /\ nature' = "None"
    /\ models' = <<>>
    /\ rewritten' = <<>>
    /\ purpose' = "None"
    /\ attempts' = <<>>
    /\ last' = "None"
    /\ plan' = NONE
    /\ commands' = <<>>
    /\ results' = <<>>
    /\ shell' = <<>>
    /\ outcome' = [kind |-> "none"]
    /\ printed' = [kind |-> "none"]
    /\ error_log' = <<>>
    /\ UNCHANGED <<sup_vars, frontend, CLASSIFY_CACHE, seen>>

\* input read from another thread while handle_input is still running
ReadInput_WhileBusy ==
    /\ frontend = "cli"
    /\ pc # "exit"
    /\ \E raw \in InputLines :
         LET t == Strip(raw)
         IN IF IsQuit(t)
            THEN /\ text' = t
                 /\ pc' = "exit"
                 /\ UNCHANGED <<sup_vars, frontend, nreq, file_ctx, CLASSIFY_CACHE, seen,
                                cls_call, cls, nature, models, rewritten, purpose,
                                attempts, last, plan, commands, results, shell, outcome,
                                printed, error_log>>
            ELSE /\ nreq < MaxRequests
                 /\ BeginRequest(t)

\* --cli: text = input("MCP> ").strip(); quit/exit breaks, anything else is handled
ReadInput ==
    /\ frontend = "cli"
    /\ pc = "main"
    /\ \E raw \in InputLines :
         LET t == Strip(raw)
         IN IF IsQuit(t)
            THEN /\ text' = t
                 /\ pc' = "exit"
                 /\ UNCHANGED <<sup_vars, frontend, nreq, file_ctx, CLASSIFY_CACHE, seen, cls_call,
                                cls, nature, models, rewritten, purpose, attempts, last,
                                plan, commands, results, shell, outcome, printed,
                                error_log>>
            ELSE /\ nreq < MaxRequests
                 /\ BeginRequest(t)

\* --text: handle_input(args.text), unstripped, no quit words
TextMode ==
    /\ frontend = "text"
    /\ pc = "main"
    /\ nreq = 0
    /\ \E arg \in InputLines : BeginRequest(arg)

\* handle_input, lines 315-316: context flag, then the whole of classify_request
HandleInputClassify ==
    /\ pc = "handle_input"
    /\ \E ctx \in (IF should_attach_context(text) THEN BOOLEAN ELSE {FALSE}),
          net \in ClassifierOutcomes :
         LET r   == classify_request(text, ctx, CLASSIFY_CACHE, net)
             key == <<text, ctx>>
             how == IF net.kind = "raise" THEN "failed"
                    ELSE IF Parsable(net.content) THEN "parsed" ELSE "unparsable"
         IN /\ file_ctx' = ctx
            /\ cls' = r.result
            /\ CLASSIFY_CACHE' = r.cache
            /\ cls_call' = [remote |-> r.remote,
                            prior |-> Get(seen, key, [how |-> "never"])]
            /\ seen' = IF r.remote
                       THEN Put(seen, key, [how |-> how, result |-> r.result])
                       ELSE seen
            /\ error_log' = IF r.logged
                            THEN Append(error_log, [by |-> "classify_request",
                                                    detail |-> "traceback"])
                            ELSE error_log
    /\ pc' = "route"
    /\ UNCHANGED <<sup_vars, frontend, nreq, text, nature, models, rewritten, purpose, attempts,
                   last, plan, commands, results, shell, outcome, printed>>

\* every report generated with the explanatory chain
HandleInputRoute_ReportUsesExplanatory ==
    /\ pc = "route"
    /\ IF ~IsDict(cls)
       THEN /\ outcome' = Raise("AttributeError", "get")
            /\ pc' = "finish"
            /\ UNCHANGED <<nature, models, rewritten, purpose>>
       ELSE /\ nature' = GatedNature(cls)
            /\ purpose' = IF IsReportRoute(nature', text) THEN "report" ELSE "plan"
            /\ models' = IF purpose' = "report"
                         THEN MODEL_CHAINS["explanatory"]
                         ELSE ResolveChain(nature')
            /\ rewritten' = Get(cls, "rewritten_request", text)
            /\ pc' = "call_with_fallback"
            /\ UNCHANGED outcome
    /\ UNCHANGED <<sup_vars, frontend, nreq, text, file_ctx, CLASSIFY_CACHE, seen, cls_call,
                   cls, attempts, last, plan, commands, results, shell, printed, error_log>>

\* the explanatory test made on the classifier's category instead of the gated one
HandleInputRoute_RawCategory ==
    /\ pc = "route"
    /\ IF ~IsDict(cls)
       THEN /\ outcome' = Raise("AttributeError", "get")
            /\ pc' = "finish"
            /\ UNCHANGED <<nature, models, rewritten, purpose>>
       ELSE /\ nature' = GatedNature(cls)
            /\ models' = ResolveChain(nature')
            /\ rewritten' = Get(cls, "rewritten_request", text)
            /\ purpose' = IF IsReportRoute(Get(cls, "nature", "unknown"), text)
                          THEN "report" ELSE "plan"
            /\ pc' = "call_with_fallback"
            /\ UNCHANGED outcome
    /\ UNCHANGED <<sup_vars, frontend, nreq, text, file_ctx, CLASSIFY_CACHE, seen, cls_call,
                   cls, attempts, last, plan, commands, results, shell, printed, error_log>>

\* handle_input, lines 317-328: gate, chain, rewritten, report-or-plan
HandleInputRoute ==
    /\ pc = "route"
    /\ IF ~IsDict(cls)
       THEN /\ outcome' = Raise("AttributeError", "get")
            /\ pc' = "finish"
            /\ UNCHANGED <<nature, models, rewritten, purpose>>
       ELSE /\ nature' = GatedNature(cls)
            /\ models' = ResolveChain(nature')
            /\ rewritten' = Get(cls, "rewritten_request", text)
            /\ purpose' = IF IsReportRoute(nature', text) THEN "report" ELSE "plan"
            /\ pc' = "call_with_fallback"
            /\ UNCHANGED outcome
    /\ UNCHANGED <<sup_vars, frontend, nreq, text, file_ctx, CLASSIFY_CACHE, seen, cls_call, cls,
                   attempts, last, plan, commands, results, shell, printed, error_log>>

\* call_with_fallback: one iteration of `for model in models`
CallModel ==
    /\ pc = "call_with_fallback"
    /\ Len(attempts) < Len(models)
    /\ \E net \in ModelOutcomes(NextModel(models, attempts)) :
         LET m == NextModel(models, attempts)
             a == ChatAttempt(net, last)
         IN /\ attempts' = Append(attempts, [model |-> m, net |-> net])
            /\ last' = a.last
            /\ IF a.returned
               THEN /\ error_log' = error_log
                    /\ IF purpose = "report"
                       THEN /\ outcome' = ReportOutcome(a.value)
                            /\ pc' = "finish"
                            /\ plan' = plan
                       ELSE /\ plan' = a.value
                            /\ pc' = "execute_plan"
                            /\ outcome' = outcome
               ELSE /\ error_log' = Append(error_log, [by |-> "call_with_fallback",
                                                       detail |-> a.last])
                    /\ UNCHANGED <<pc, plan, outcome>>
    /\ UNCHANGED <<sup_vars, frontend, nreq, text, file_ctx, CLASSIFY_CACHE, seen, cls_call, cls,
                   nature, models, rewritten, purpose, commands, results, shell, printed>>

\* call_with_fallback: the loop ran out of models
FallbackExhausted ==
    /\ pc = "call_with_fallback"
    /\ Len(attempts) >= Len(models)
    /\ outcome' = Exhausted(last)
    /\ pc' = "finish"
    /\ UNCHANGED <<sup_vars, frontend, nreq, text, file_ctx, CLASSIFY_CACHE, seen, cls_call, cls,
                   nature, models, rewritten, purpose, attempts, last, plan, commands,
                   results, shell, printed, error_log>>

\* execute_plan, lines 262-273
ExecutePlan ==
    /\ pc = "execute_plan"
    /\ IF ~IsDict(plan)
       THEN /\ outcome' = Raise("AttributeError", "get")
            /\ pc' = "finish"
            /\ UNCHANGED commands
       ELSE /\ commands' = PlanCommands(plan)
            /\ IF IsNoExec(commands')
               THEN /\ outcome' = NoExecOutcome(plan)
                    /\ pc' = "finish"
               ELSE /\ pc' = "run"
                    /\ UNCHANGED outcome
    /\ UNCHANGED <<sup_vars, frontend, nreq, text, file_ctx, CLASSIFY_CACHE, seen, cls_call, cls,
                   nature, models, rewritten, purpose, attempts, last, plan, results,
                   shell, printed, error_log>>

\* execute_plan: one iteration of `for cmd in commands`
RunCommand ==
    /\ pc = "run"
    /\ Len(shell) < Len(commands)
    /\ \E proc \in RunOutcomes :
         LET cmd == commands[Len(shell) + 1]
         IN /\ shell' = Append(shell, cmd)
            /\ IF proc.kind = "timeout"
               THEN /\ outcome' = Raise("TimeoutExpired", "90")
                    /\ pc' = "finish"
                    /\ UNCHANGED results
               ELSE /\ results' = RecordResult(results, cmd, proc)
                    /\ UNCHANGED <<pc, outcome>>
    /\ UNCHANGED <<sup_vars, frontend, nreq, text, file_ctx, CLASSIFY_CACHE, seen, cls_call, cls,
                   nature, models, rewritten, purpose, attempts, last, plan, commands,
                   printed, error_log>>

\* execute_plan, lines 289-294
ExecutePlanReturn ==
    /\ pc = "run"
    /\ Len(shell) >= Len(commands)
    /\ outcome' = ExecuteOutcome(plan, results)
    /\ pc' = "finish"
    /\ UNCHANGED <<sup_vars, frontend, nreq, text, file_ctx, CLASSIFY_CACHE, seen, cls_call, cls,
                   nature, models, rewritten, purpose, attempts, last, plan, commands,
                   results, shell, printed, error_log>>

\* main: print the result, or log and print the generic message
MainFinish ==
    /\ pc = "finish"
    /\ LET t == TopLevel(frontend, outcome)
       IN /\ printed' = t.printed
          /\ pc' = t.pc
          /\ error_log' = IF t.logged
                          THEN Append(error_log, [by |-> "main", detail |-> outcome.exc])
                          ELSE error_log
    /\ UNCHANGED <<sup_vars, frontend, nreq, text, file_ctx, CLASSIFY_CACHE, seen, cls_call, cls,
                   nature, models, rewritten, purpose, attempts, last, plan, commands,
                   results, shell, outcome>>

\* what the supervision processes never touch: everything of the dispatcher
disp_vars == <<frontend, pc, nreq, text, file_ctx, CLASSIFY_CACHE, seen, cls_call, cls,
               nature, models, rewritten, purpose, attempts, last, plan, commands,
               results, shell, outcome, printed, error_log, out_file>>

\* `while True`: the flag is never looked at
ServiceTest_IgnoresFlag ==
    /\ frontend = "service"
    /\ svc_pc = "test"
    /\ svc_pc' = "sleep"
    /\ UNCHANGED <<disp_vars, state_json, now, stop_signal, svc_polled, watcher_pc, stops,
                   w_last, probe>>

\* run_as_service: the test of `while not stop_signal`
ServiceTest ==
    /\ frontend = "service"
    /\ svc_pc = "test"
    /\ svc_pc' = IF stop_signal THEN "done" ELSE "sleep"
    /\ UNCHANGED <<disp_vars, state_json, now, stop_signal, svc_polled, watcher_pc, stops,
                   w_last, probe>>

\* run_as_service: time.sleep(1) returns
ServiceSleep ==
    /\ frontend = "service"
    /\ svc_pc = "sleep"
    /\ svc_pc' = "test"
    /\ svc_polled' = TRUE
    /\ UNCHANGED <<disp_vars, state_json, now, stop_signal, watcher_pc, stops, w_last, probe>>

\* signal_handler: SIGINT or SIGTERM arrives while the service runs
Signal ==
    /\ frontend = "service"
    /\ svc_pc \in {"test", "sleep"}
    /\ ~stop_signal
    /\ stop_signal' = TRUE
    /\ UNCHANGED <<disp_vars, state_json, now, svc_pc, svc_polled, watcher_pc, stops, w_last,
                   probe>>

\* time passes between the steps of the processes
Tick ==
    /\ frontend = "service"
    /\ \E t \in Clock : t > now /\ now' = t
    /\ UNCHANGED <<disp_vars, state_json, stop_signal, svc_pc, svc_polled, watcher_pc, stops,
                   w_last, probe>>

\* one run of healthcheck.py
HealthCheck ==
    /\ frontend = "service"
    /\ probe' = [ran |-> TRUE, exit |-> healthcheck(state_json, now), at |-> now,
                 alive |-> svc_pc \in {"test", "sleep"} /\ ~stop_signal /\ svc_polled]
    /\ UNCHANGED <<disp_vars, state_json, now, stop_signal, svc_pc, svc_polled, watcher_pc,
                   stops, w_last>>

\* the loop body without its try/except: an exception ends the watcher
WatcherCheck_Uncaught ==
    /\ frontend = "service"
    /\ watcher_pc = "check"
    /\ LET how == idle_check(state_json, now)
       IN /\ w_last' = [how |-> how, at |-> now]
          /\ IF how = "stop"
             THEN /\ \E res \in ShellResults : stops' = Append(stops, res)
                  /\ watcher_pc' = "done"
             ELSE /\ watcher_pc' = IF how = "except" THEN "done" ELSE "sleep"
                  /\ UNCHANGED stops
    /\ UNCHANGED <<disp_vars, state_json, now, stop_signal, svc_pc, svc_polled, probe>>

\* idle_watcher.py: one pass through the loop body, up to break or time.sleep(60)
WatcherCheck ==
    /\ frontend = "service"
    /\ watcher_pc = "check"
    /\ LET how == idle_check(state_json, now)
       IN /\ w_last' = [how |-> how, at |-> now]
          /\ IF how = "stop"
             THEN /\ \E res \in ShellResults : stops' = Append(stops, res)
                  /\ watcher_pc' = "done"
             ELSE /\ watcher_pc' = "sleep"
                  /\ UNCHANGED stops
    /\ UNCHANGED <<disp_vars, state_json, now, stop_signal, svc_pc, svc_polled, probe>>

\* idle_watcher.py: time.sleep(60) returns, in the try or in the except
WatcherWake ==
    /\ frontend = "service"
    /\ watcher_pc = "sleep"
    /\ watcher_pc' = "check"
    /\ UNCHANGED <<disp_vars, state_json, now, stop_signal, svc_pc, svc_polled, stops, w_last,
                   probe>>

Next ==
    \/ ReadInput
    \/ TextMode
    \/ HandleInputClassify
    \/ HandleInputRoute
    \/ CallModel
    \/ FallbackExhausted
    \/ ExecutePlan
    \/ RunCommand
    \/ ExecutePlanReturn
    \/ MainFinish
    \/ ServiceTest
    \/ ServiceSleep
    \/ Signal
    \/ Tick
    \/ HealthCheck
    \/ WatcherCheck
    \/ WatcherWake

Spec == Init /\ [][Next]_vars

\* service mode alone: main() was started with neither --cli nor --text
InitService == Init /\ frontend = "service"

NextService ==
    \/ ServiceTest
    \/ ServiceSleep
    \/ Signal
    \/ Tick
    \/ HealthCheck
    \/ WatcherCheck
    \/ WatcherWake

\* the service process is scheduled and time.sleep(1) returns
SpecService ==
    /\ InitService
    /\ [][NextService]_vars
    /\ WF_vars(ServiceTest)
    /\ WF_vars(ServiceSleep)

---------------------------------------------------------------------------
(* Properties *)

\* handle_input has passed the gate and chosen the chain for this request
Routed == purpose # "None"

\* the commands list of a plan, read off the plan document itself
ListedCommands(p) ==
    IF IsDict(p) /\ "commands" \in DOMAIN p /\ p.commands.isList
    THEN p.commands.items
    ELSE <<>>

\* the text holds one of the four trigger phrases, letter case ignored
HasTrigger(t) ==
    \E k \in { REPORT_KEYWORDS[n] : n \in DOMAIN REPORT_KEYWORDS } :
      \E off \in 0..(Len(t) - Len(k)) :
        \A j \in 1..Len(k) : LowerChar(t[off + j]) = k[j]

\* C1: whenever the classifier result carries a confidence below 0.6, the gated
\* category is "unknown" and the chain handed to the report generator or the plan
\* builder is MODEL_CHAINS["unknown"], whatever category the classifier reported;
\* every model then called belongs to that chain.
C1_LowConfidenceUsesUnknownChain ==
    (Routed /\ "confidence" \in DOMAIN cls /\ cls.confidence < 60)
    => /\ nature = "unknown"
       /\ models = <<"ministral-3:14b", "glm-4.6">>
       /\ \A i \in DOMAIN attempts :
            attempts[i].model \in {"ministral-3:14b", "glm-4.6"}

C1_Witness ==
    /\ Routed
    /\ "nature" \in DOMAIN cls /\ cls.nature = "explanatory"
    /\ "confidence" \in DOMAIN cls /\ cls.confidence = 59
    /\ purpose = "plan"
    /\ Len(attempts) = 2
    /\ attempts[2].model = "glm-4.6"

\* C2: a plan whose commands list is empty never enters the run loop, no command
\* is handed to the shell for the request, and when execute_plan returns its
\* mode is NO_EXEC.
C2_EmptyPlanIsNoExec ==
    (IsDict(plan) /\ "commands" \in DOMAIN plan /\ plan.commands.isList
       /\ plan.commands.items = <<>>)
    => /\ pc # "run"
       /\ shell = <<>>
       /\ results = <<>>
       /\ (pc \notin {"execute_plan"} => outcome.kind = "return" /\ outcome.mode = "NO_EXEC")

C2_Witness ==
    /\ IsDict(plan) /\ "commands" \in DOMAIN plan /\ plan.commands.isList
    /\ plan.commands.items = <<>>
    /\ outcome.kind = "return" /\ outcome.mode = "NO_EXEC"
    /\ printed.kind = "result"

\* C3: a request whose text holds a report trigger phrase in any letter case is
\* routed to the report generator: the plan builder is never entered, no command
\* runs, and whenever handle_input returns its mode is REPORT.
C3_TriggerForcesReport ==
    (Routed /\ HasTrigger(text))
    => /\ purpose = "report"
       /\ plan = NONE
       /\ shell = <<>>
       /\ (outcome.kind = "return" => outcome.mode = "REPORT")

C3_Witness ==
    /\ text = TXT_report
    /\ "nature" \in DOMAIN cls /\ cls.nature = "server_operation"
    /\ "confidence" \in DOMAIN cls /\ cls.confidence >= 60
    /\ outcome.kind = "return" /\ outcome.mode = "REPORT"

\* C4: commands run one at a time in list order, each run that exits adds the
\* result of that command, and an EXECUTE outcome of a plan with N >= 1 commands
\* holds exactly N results, the i-th for the i-th command, failed ones included.
C4_OneResultPerCommandInOrder ==
    LET cmds == ListedCommands(plan)
    IN /\ (pc = "run" =>
             /\ Len(shell) <= Len(cmds)
             /\ shell = SubSeq(cmds, 1, Len(shell))
             /\ Len(results) = Len(shell)
             /\ \A i \in DOMAIN results : results[i].command = cmds[i])
       /\ ((outcome.kind = "return" /\ outcome.mode = "EXECUTE") =>
             /\ Len(cmds) >= 1
             /\ shell = cmds
             /\ Len(outcome.results) = Len(cmds)
             /\ \A i \in DOMAIN cmds : outcome.results[i].command = cmds[i])

C4_Witness ==
    /\ outcome.kind = "return" /\ outcome.mode = "EXECUTE"
    /\ Len(outcome.results) = 2
    /\ outcome.results[1].returncode = 1
    /\ outcome.results[1].command = 2
    /\ outcome.results[2].command = 1

\* C5: once the run loop has been entered, the request ends with an EXECUTE
\* outcome that holds a result for every command of the plan, also when a
\* command timed out: every command was attempted and nothing escaped.
C5_TimeoutDoesNotAbort ==
    (shell # <<>> /\ outcome.kind # "none")
    => /\ outcome.kind = "return"
       /\ outcome.mode = "EXECUTE"
       /\ shell = commands
       /\ Len(outcome.results) = Len(commands)

\* classify_request has returned for the request whose input is text
\* (after quit or exit, text is the quit word and no request is at hand)
Classified == cls # NONE /\ ~(frontend = "cli" /\ pc = "exit")

\* C6 as stated: a request whose (text, context flag) was classified before gets
\* the earlier result back without a remote classifier call, however the earlier
\* call ended (parsed response, unparsable response, transport failure).
C6_RepeatNeverCallsRemote ==
    (Classified /\ cls_call.prior.how # "never")
    => /\ ~cls_call.remote
       /\ cls = cls_call.prior.result

\* C6 amended: when the remote call of the earlier classification returned a
\* response, parsable or not, the repeat gets the identical result from the cache
\* and makes no remote call; when the earlier call failed in transport nothing
\* was stored and the repeat calls the classifier again.
C6_RepeatIsCachedUnlessTransportFailed ==
    Classified
    => /\ (cls_call.prior.how \in {"parsed", "unparsable"}
             => /\ ~cls_call.remote
                /\ cls = cls_call.prior.result
                /\ <<text, file_ctx>> \in DOMAIN CLASSIFY_CACHE
                /\ CLASSIFY_CACHE[<<text, file_ctx>>] = cls)
       /\ (cls_call.prior.how = "failed" => cls_call.remote)

C6_Witness ==
    /\ Classified
    /\ nreq = 2
    /\ cls_call.prior.how = "unparsable"
    /\ ~cls_call.remote
    /\ file_ctx
    /\ cls.rewritten_request = TXT_report

\* call_with_fallback has returned a value to its caller
Returned ==
    /\ attempts # <<>>
    /\ attempts[Len(attempts)].net.kind = "content"
    /\ pc # "call_with_fallback"

\* the value call_with_fallback handed to generate_report or build_execution_plan
ReturnedValue == IF purpose = "report" THEN outcome.report ELSE plan

\* the error_log entries written by call_with_fallback
FallbackLog == SelectSeq(error_log, LAMBDA e : e.by = "call_with_fallback")

\* C7: the i-th call goes to the i-th model of the chain, a call is made only
\* after every earlier one failed, each failure is logged, and the value returned
\* is the one of the first call that succeeded; no model is called after it.
C7_ChainOrderFirstSuccessWins ==
    /\ Len(attempts) <= Len(models)
    /\ \A i \in DOMAIN attempts :
         /\ attempts[i].model = models[i]
         /\ (i < Len(attempts) => attempts[i].net.kind = "raise")
    /\ Len(FallbackLog) = Cardinality({i \in DOMAIN attempts : attempts[i].net.kind = "raise"})
    /\ \A i \in DOMAIN FallbackLog : FallbackLog[i].detail = attempts[i].net.err
    /\ (Returned /\ Parsable(attempts[Len(attempts)].net.content)
          => ReturnedValue = StripFences(attempts[Len(attempts)].net.content)[1].v)

C7_Witness ==
    /\ Returned
    /\ models = <<"gpt-oss:120b", "qwen3-next:80b">>
    /\ Len(attempts) = 2
    /\ attempts[1].model = "gpt-oss:120b" /\ attempts[1].net.kind = "raise"
    /\ attempts[2].model = "qwen3-next:80b"
    /\ plan = PlanDoc(2)
    /\ Len(FallbackLog) = 1

C9_AllFailedRaisesLastDetail ==
    LET allFailed == /\ Len(attempts) = Len(models)
                     /\ attempts # <<>>
                     /\ \A i \in DOMAIN attempts : attempts[i].net.kind = "raise"
    IN /\ (allFailed /\ pc # "call_with_fallback")
          => /\ outcome = [kind |-> "raise", exc |-> "RuntimeError",
                           detail |-> attempts[Len(attempts)].net.err]
             /\ plan = NONE
             /\ shell = <<>>
             /\ printed.kind # "result"
       /\ (outcome.kind = "raise" /\ outcome.exc = "RuntimeError") => allFailed

C9_Witness ==
    /\ Len(attempts) = 2
    /\ attempts[1].net.kind = "raise" /\ attempts[1].net.err = "gpt-oss:120b"
    /\ attempts[2].net.kind = "raise" /\ attempts[2].net.err = "qwen3-next:80b"
    /\ outcome = [kind |-> "raise", exc |-> "RuntimeError", detail |-> "qwen3-next:80b"]
    /\ printed.kind = "error"

\* C10: when handle_input ends with an exception, main logs it, prints only the
\* generic message of its front end and does not die: the --cli loop is back at
\* its prompt, and it is left only on an input that lowercases to quit or exit.
C10_ExceptionsCaughtAtTopLevel ==
    /\ (outcome.kind = "raise" /\ pc \in {"main", "exit"})
       => /\ printed = [kind |-> "error",
                        msg |-> IF frontend = "cli" THEN "error occurred"
                                ELSE "AI processing failed"]
          /\ error_log # <<>>
          /\ error_log[Len(error_log)] = [by |-> "main", detail |-> outcome.exc]
          /\ (frontend = "cli" => pc = "main" \/ Lower(text) \in QUIT_WORDS)
    /\ (frontend = "cli" /\ pc = "exit") => Lower(text) \in QUIT_WORDS

C10_Witness ==
    /\ frontend = "cli"
    /\ pc = "main"
    /\ nreq = 2
    /\ outcome.kind = "raise" /\ outcome.exc = "TimeoutExpired"
    /\ printed.kind = "error"

\* the remote classification of this request failed or came back unparsable
ClassifierFellBack ==
    /\ Classified
    /\ cls_call.remote
    /\ seen[<<text, file_ctx>>].how \in {"failed", "unparsable"}

\* C11: when the remote classifier call fails or its content cannot be parsed,
\* classify_request does not raise but returns category unknown, confidence 0 and
\* the original input as rewritten request; the request goes on with the unknown
\* chain, and if it ends in an exception, that exception arose after routing.
C11_ClassifierFailureYieldsDefault ==
    ClassifierFellBack =>
        /\ cls = [json |-> "dict", nature |-> "unknown", rewritten_request |-> text,
                  confidence |-> 0]
        /\ pc # "handle_input"
        /\ (pc # "route" => Routed)
        /\ Routed => /\ nature = "unknown"
                     /\ models = MODEL_CHAINS["unknown"]
                     /\ rewritten = text

C11_Witness ==
    /\ ClassifierFellBack
    /\ seen[<<text, file_ctx>>].how = "failed"
    /\ Routed
    /\ models = MODEL_CHAINS["unknown"]
    /\ outcome.kind = "return"

\* C12: a request answered in REPORT mode never reached the plan builder or the plan
\* runner: no plan was built, no command list was read, no shell command was run.
C12_ReportNeverPlansOrRuns ==
    (outcome.kind = "return" /\ outcome.mode = "REPORT") =>
        /\ purpose = "report"
        /\ plan = NONE
        /\ commands = <<>>
        /\ shell = <<>>
        /\ results = <<>>

C12_Witness ==
    /\ outcome.kind = "return"
    /\ outcome.mode = "REPORT"
    /\ printed.kind = "result"
    /\ Len(attempts) >= 1

\* C13: a health check made while the service is running, has not been told to
\* stop and has been through a poll interval finds a fresh heartbeat and passes.
C13_AliveServiceHasFreshHeartbeat ==
    (probe.ran /\ probe.alive) => probe.exit = 0

\* the heartbeat file holds a JSON document with a last_heartbeat entry
HasHeartbeatKey ==
    state_json.file = "json" /\ "last_heartbeat" \in DOMAIN state_json.value

HasValidHeartbeat ==
    /\ HasHeartbeatKey
    /\ IsDict(state_json.value)
    /\ state_json.value.last_heartbeat # 0

\* C15: a watcher check that finds a valid heartbeat older than IDLE_LIMIT issues
\* one stop command and ends the loop; a check that finds it at or below the limit
\* issues none and the loop goes on; never is a second stop command issued.
C15_WatcherStopsOnceAboveLimit ==
    /\ Len(stops) <= 1
    /\ (w_last.how # "none" /\ HasValidHeartbeat) =>
           IF w_last.at - state_json.value.last_heartbeat > 1800
           THEN w_last.how = "stop" /\ Len(stops) = 1 /\ watcher_pc = "done"
           ELSE w_last.how = "sleep" /\ Len(stops) = 0 /\ watcher_pc # "done"

C15_Witness ==
    /\ HasValidHeartbeat
    /\ w_last.how = "stop"
    /\ w_last.at - state_json.value.last_heartbeat = 1801
    /\ Len(stops) = 1
    /\ watcher_pc = "done"

\* C16: when the plan names an output_file and at least one command ran, the
\* EXECUTE outcome comes with the results appended to that file.
C16_ResultsAppendedToOutputFile ==
    ( /\ outcome.kind = "return"
      /\ outcome.mode = "EXECUTE"
      /\ "output_file" \in DOMAIN plan
      /\ Len(shell) >= 1 ) =>
        /\ out_file # <<>>
        /\ out_file[Len(out_file)] = results

\* C17: the dispatcher handles one request at a time: input is read and
\* handle_input is entered only while main is between requests, that is before the
\* first request or after the previous one was answered on the terminal.
C17_OneRequestAtATime ==
    [][ (nreq' # nreq \/ text' # text) =>
            /\ pc = "main"
            /\ (nreq = 0 \/ printed.kind # "none") ]_vars

C17_Witness ==
    /\ frontend = "cli"
    /\ nreq = 2
    /\ pc = "handle_input"
    /\ printed.kind = "none"

\* C18: the idle watcher is not ended by a failing check: after a check that
\* raised, the loop sleeps and checks again, and the loop has ended only when its
\* latest check issued the stop command.
C18_WatcherSurvivesFailingCheck ==
    /\ w_last.how = "except" => watcher_pc \in {"sleep", "check"}
    /\ watcher_pc = "done" => (w_last.how = "stop" /\ Len(stops) = 1)

C18_Witness ==
    /\ w_last.how = "except"
    /\ watcher_pc = "check"
    /\ Len(stops) = 0

\* C19: run_as_service leaves its loop only when a signal has set stop_signal,
\* the first loop test made with the flag set leaves the loop, and once the flag
\* is set the loop is left.
C19_ServiceStopsOnlyOnSignal ==
    /\ [][ /\ (svc_pc # "done" /\ svc_pc' = "done") => stop_signal
           /\ (svc_pc = "test" /\ svc_pc' # "test" /\ stop_signal) => svc_pc' = "done"
         ]_vars
    /\ stop_signal ~> (svc_pc = "done")

C19_Witness ==
    /\ svc_pc = "done"
    /\ stop_signal
    /\ svc_polled

\* C20: no step of request processing, of the idle watcher or of the health check
\* changes the heartbeat file; the service loop itself and the passing of time
\* leave it alone as well.
C20_HeartbeatOnlyRead ==
    [][state_json' = state_json]_vars

C20_Witness ==
    /\ probe.ran
    /\ w_last.how = "stop"
    /\ Len(stops) = 1
    /\ state_json = Json(Heartbeat(1000))

\* C21: chain resolution is a total lookup: each of the four configured categories
\* resolves to its own chain of the table, any other category value (misspelled,
\* unmapped, or absent from the classifier result) resolves to the unknown chain,
\* and the resolved chain is never empty.
C21_ChainResolutionIsTotal ==
    Routed =>
        /\ Len(models) >= 1
        /\ nature = "server_operation" =>
               models = <<"gpt-oss:120b", "qwen3-next:80b">>
        /\ nature = "code_generation" =>
               models = <<"devstral-2:123b-cloud", "qwen3-coder:480b-cloud">>
        /\ nature = "explanatory" =>
               models = <<"gemini-3-flash-preview:cloud", "mistral-large-3">>
        /\ nature \notin {"server_operation", "code_generation", "explanatory"} =>
               models = <<"ministral-3:14b", "glm-4.6">>

C21_Witness ==
    /\ Routed
    /\ Classified
    /\ Get(cls, "nature", "absent") = "sever_operation"
    /\ nature = "sever_operation"
    /\ models = <<"ministral-3:14b", "glm-4.6">>

\* the classifier called this request explanatory, but below the threshold
LowConfidenceExplanatory ==
    /\ Routed
    /\ Classified
    /\ Get(cls, "nature", "absent") = "explanatory"
    /\ Get(cls, "confidence", 0) < 60

\* C22: a request labelled explanatory with confidence below 0.6 and without a
\* report trigger phrase in its text is not answered in REPORT mode: it goes to
\* the plan builder with the unknown chain, and its plan is handed to execute_plan.
C22_ExplanatoryTestOnGatedCategory ==
    (LowConfidenceExplanatory /\ ~HasTrigger(text)) =>
        /\ nature = "unknown"
        /\ models = <<"ministral-3:14b", "glm-4.6">>
        /\ purpose = "plan"
        /\ ~(outcome.kind = "return" /\ outcome.mode = "REPORT")
        /\ (outcome.kind = "return" => plan # NONE)

C22_Witness ==
    /\ LowConfidenceExplanatory
    /\ ~HasTrigger(text)
    /\ outcome.kind = "return"
    /\ outcome.mode = "EXECUTE"
    /\ Len(shell) >= 1

\* the cache holds exactly the keys whose remote call returned, each with the
\* value that call produced; an unparsable response is held as the default
CacheHoldsReturnedCalls ==
    /\ DOMAIN CLASSIFY_CACHE = {k \in DOMAIN seen : seen[k].how # "failed"}
    /\ \A k \in DOMAIN CLASSIFY_CACHE :
         /\ CLASSIFY_CACHE[k] = seen[k].result
         /\ seen[k].how = "unparsable" =>
                CLASSIFY_CACHE[k] = [json |-> "dict", nature |-> "unknown",
                                     rewritten_request |-> k[1], confidence |-> 0]

\* a repeat after an unparsable response is served from the cache with the
\* default; a repeat after a transport failure calls the classifier again
RepeatFollowsCache ==
    Classified =>
        /\ cls_call.prior.how = "unparsable" =>
               /\ ~cls_call.remote
               /\ cls = [json |-> "dict", nature |-> "unknown",
                         rewritten_request |-> text, confidence |-> 0]
        /\ cls_call.prior.how = "failed" => cls_call.remote

\* C23: the classification cache stores a result exactly when the remote call
\* returned: an unparsable response is cached as the default and serves every
\* later identical request without a remote call, a transport failure stores
\* nothing and the next identical request calls again, and an entry once stored
\* is never changed or removed.
C23_CacheStoresExactlyReturnedCalls ==
    /\ [](CacheHoldsReturnedCalls /\ RepeatFollowsCache)
    /\ [][\A k \in DOMAIN CLASSIFY_CACHE :
             k \in DOMAIN CLASSIFY_CACHE' /\ CLASSIFY_CACHE'[k] = CLASSIFY_CACHE[k]]_vars

C23_Witness ==
    /\ Classified
    /\ nreq = 2
    /\ cls_call.prior.how = "unparsable"
    /\ ~cls_call.remote
    /\ cls.nature = "unknown"
    /\ <<text, file_ctx>> \in DOMAIN CLASSIFY_CACHE

\* C24: while the heartbeat file is missing, unreadable, without last_heartbeat or
\* holds last_heartbeat 0, no watcher check issues the stop command and the watcher
\* keeps looping, whatever the clock says.
C24_NoStopWithoutValidHeartbeat ==
    ~HasValidHeartbeat =>
        /\ stops = <<>>
        /\ watcher_pc # "done"
        /\ w_last.how \in {"none", "sleep", "except"}

C24_Witness ==
    /\ state_json = Json(Heartbeat(0))
    /\ w_last.how = "sleep"
    /\ w_last.at = 2801
    /\ watcher_pc = "check"
    /\ stops = <<>>

\* the request is on the report route although its gated category is not explanatory
ReportByTriggerOnly ==
    /\ Routed
    /\ Classified
    /\ purpose = "report"
    /\ nature # "explanatory"

\* C25: a request that reaches REPORT only through a trigger phrase has its report
\* generated by the chain of its gated category, not by the explanatory chain: the
\* server_operation or code_generation chain when the classifier was confident, the
\* unknown chain otherwise and whenever confidence is below 0.6; the models called
\* are the models of that chain, in order.
C25_ReportUsesGatedChain ==
    ReportByTriggerOnly =>
        /\ HasTrigger(text)
        /\ models # <<"gemini-3-flash-preview:cloud", "mistral-large-3">>
        /\ models = IF nature = "server_operation"
                    THEN <<"gpt-oss:120b", "qwen3-next:80b">>
                    ELSE IF nature = "code_generation"
                    THEN <<"devstral-2:123b-cloud", "qwen3-coder:480b-cloud">>
                    ELSE <<"ministral-3:14b", "glm-4.6">>
        /\ Get(cls, "confidence", 0) < 60 => models = <<"ministral-3:14b", "glm-4.6">>
        /\ Len(attempts) <= Len(models)
        /\ \A i \in 1..Len(attempts) : attempts[i].model = models[i]

C25_Witness ==
    /\ ReportByTriggerOnly
    /\ nature = "code_generation"
    /\ outcome.kind = "return"
    /\ outcome.mode = "REPORT"
    /\ Len(attempts) = 2
    /\ attempts[2].model = "qwen3-coder:480b-cloud"

=============================================================================
